---- MODULE Spec2Model ----
(***************************************************************************)
(* Asset dependency analysis of the Yii2 MCP server (Yii2Manager):         *)
(* analyzeAssetDependencies, analyzeSpecificAsset,                         *)
(* findCircularDependencies and topologicalSort (Spec, SpecInterlinked);   *)
(* the extraction of the descriptors, getAllAssets (SpecExtract,           *)
(* SpecParse, SpecModule); DatabaseManager.executeQuery (SpecDb) and       *)
(* getConnection under concurrent callers (SpecPool); the tools that       *)
(* launch a console command (SpecShell); and the tool-call handler         *)
(* (SpecHandler).                                                          *)
(*                                                                         *)
(* A class or dependency identifier is modelled as the sequence of its     *)
(* backslash-separated segments: "AppAsset" is <<"AppAsset">>,             *)
(* "yii\web\JqueryAsset" is <<"yii", "web", "JqueryAsset">> and the empty  *)
(* string is << >>.                                                        *)
(***************************************************************************)
EXTENDS Integers, Sequences, FiniteSets, TLC

\* ------------------------------------------------------------------ bounds
\* Largest number of asset files found by one extraction run.
MaxAssets == 3
\* Largest number of $depends entries in the whole project (all files together).
MaxDepends == 2

\* ------------------------------------------------------------ input domain
\* Base names of asset files (basename(filePath, '.php')), in the order in
\* which a scan first meets them.  Names are only ever compared for
\* equality, so the first new name of a scan is called A, the second B, ...
ClassNames == <<"A", "B", "C", "D">>

\* A framework bundle, never extracted from the project's own directories.
JqueryAsset == <<"yii", "web", "JqueryAsset">>

AssetName(k) == <<ClassNames[k]>>

AssetNames == {AssetName(k) : k \in 1..MaxAssets}

DepNames == AssetNames \cup {JqueryAsset}

\* AssetInfo: the fields the dependency analysis reads.  path is the file
\* the descriptor was parsed from (here: its position in the scan).
AssetInfo(i, k, deps) == [name |-> AssetName(k), path |-> i, depends |-> deps]

MaxOf(S) == IF S = {} THEN 0
            ELSE LET x == CHOOSE y \in S : \A z \in S : z <= y IN x

\* k[i] is the index in ClassNames of the i-th file's base name: a name is
\* either one met before or the next unused one.
FirstMetOrder(k) ==
    \A i \in DOMAIN k : k[i] <= 1 + MaxOf({k[j] : j \in 1..(i - 1)})

\* o[j] is the file that declares the j-th $depends entry of the project,
\* the entries being numbered file by file.
FileByFile(o) == \A j \in DOMAIN o : \A h \in 1..(j - 1) : o[h] <= o[j]

\* The $depends list of file i, given the project's entries e and their files o.
DependsOf(i, o, e) ==
    LET before == Cardinality({j \in DOMAIN o : o[j] < i})
        count == Cardinality({j \in DOMAIN o : o[j] = i})
    IN [j \in 1..count |-> e[before + j]]

\* One extraction run yields the descriptors of n files, in scan order.
Extracted(assets) ==
    \E n \in 0..MaxAssets :
        \E k \in [1..n -> 1..MaxAssets] :
            /\ FirstMetOrder(k)
            /\ \E m \in 0..MaxDepends :
                  \E o \in [1..m -> 1..n] :
                      /\ FileByFile(o)
                      /\ \E e \in [1..m -> DepNames] :
                            assets = [i \in 1..n |-> AssetInfo(i, k[i], DependsOf(i, o, e))]

\* -------------------------------------------------------------- JS helpers
Range(s) == {s[i] : i \in DOMAIN s}

\* Array.prototype.indexOf: 0-based index of the first match, -1 if none.
IndexOf(s, x) ==
    IF \E i \in DOMAIN s : s[i] = x
    THEN (CHOOSE i \in DOMAIN s : s[i] = x /\ \A j \in 1..(i - 1) : s[j] # x) - 1
    ELSE -1

\* Array.prototype.slice(start) for 0 <= start.
Slice(s, start) == SubSeq(s, start + 1, Len(s))

\* Array.prototype.includes
Includes(s, x) == x \in Range(s)

\* Array.prototype.filter is SelectSeq.

\* A lookup in which a later descriptor replaces an earlier one of its name.
FindLast(assets, assetName) ==
    IF \E i \in DOMAIN assets : assets[i].name = assetName
    THEN CHOOSE i \in DOMAIN assets :
             assets[i].name = assetName /\ \A j \in DOMAIN assets : assets[j].name = assetName => j <= i
    ELSE 0

\* assets.find(a => a.name === assetName): position of the first descriptor
\* with that name, 0 when find returns undefined.
Find(assets, assetName) == IndexOf([i \in DOMAIN assets |-> assets[i].name], assetName) + 1

\* dep.startsWith('yii\\')
StartsWithYii(dep) == Len(dep) > 1 /\ dep[1] = "yii"

\* JavaScript truthiness of the optional string argument.
Truthy(arg) == arg.given /\ arg.name # << >>

\* ------------------------------------------------ findCircularDependencies
\* The branch taken when assetName is on the recursion stack: the cycle is the
\* path from the first occurrence of assetName on, closed by assetName.
RecordCycleOpen(st, path, assetName) ==
    LET cycleStart == IndexOf(path, assetName) IN
    IF cycleStart # -1
    THEN [st EXCEPT !.cycles = Append(@, Slice(path, cycleStart))]
    ELSE st

RecordCycleAfterStart(st, path, assetName) ==
    LET cycleStart == IndexOf(path, assetName) IN
    IF cycleStart # -1
    THEN [st EXCEPT !.cycles = Append(@, Append(Slice(path, cycleStart + 1), assetName))]
    ELSE st

\* A variant that pushes the names of the slice from the current name back.
RecordCycleBackwards(st, path, assetName) ==
    LET cycleStart == IndexOf(path, assetName)
        slice == Slice(path, cycleStart)
    IN IF cycleStart # -1
       THEN [st EXCEPT !.cycles =
                Append(@, Append([i \in DOMAIN slice |-> slice[Len(slice) + 1 - i]], assetName))]
       ELSE st

\* A variant that pushes every cycle twice.
RecordCycleTwice(st, path, assetName) ==
    LET cycleStart == IndexOf(path, assetName) IN
    IF cycleStart # -1
    THEN [st EXCEPT !.cycles = Append(Append(@, Append(Slice(path, cycleStart), assetName)),
                                      Append(Slice(path, cycleStart), assetName))]
    ELSE st

RecordCycle(st, path, assetName) ==
    LET cycleStart == IndexOf(path, assetName) IN
    IF cycleStart # -1
    THEN [st EXCEPT !.cycles = Append(@, Append(Slice(path, cycleStart), assetName))]
    ELSE st

\* visited.add(assetName); recursionStack.add(assetName)
EnterNoStack(st, assetName) ==
    [st EXCEPT !.visited = @ \cup {assetName}]

EnterNoVisited(st, assetName) ==
    [st EXCEPT !.recursionStack = @ \cup {assetName}]

Enter(st, assetName) ==
    [st EXCEPT !.visited = @ \cup {assetName},
               !.recursionStack = @ \cup {assetName}]

\* Besides the code's cycles, visited and recursionStack the traversal state
\* carries three observations of the run: calls, the number of times dfs was
\* entered; expanded, the names whose descriptor was looked up and whose
\* dependencies were followed, in that order; and backEdges, the edges
\* <<from, to>> that were followed while their target was on the recursion
\* stack, in that order.
OnStack(st, path, assetName) ==
    [st EXCEPT !.backEdges = Append(@, <<path[Len(path)], assetName>>)]

RECURSIVE dfs(_, _, _, _), dfsDepends(_, _, _, _, _)

\* A variant that takes every name seen before for a cycle, on the stack or not.
dfsVisitedIsCycle(assets, st, assetName, path) ==
    LET s0 == [st EXCEPT !.calls = @ + 1] IN
    IF assetName \in s0.visited
    THEN [s0 EXCEPT !.cycles = Append(@, Append(path, assetName))]
    ELSE
        LET st1 == [Enter(s0, assetName) EXCEPT !.expanded = Append(@, assetName)]
            a == Find(assets, assetName)
            st2 == IF a # 0
                   THEN dfsDepends(assets, st1, assets[a].depends, 1, Append(path, assetName))
                   ELSE st1
        IN [st2 EXCEPT !.recursionStack = @ \ {assetName}]

dfs(assets, st, assetName, path) ==
    LET s0 == [st EXCEPT !.calls = @ + 1] IN
    IF assetName \in s0.recursionStack
    THEN RecordCycle(OnStack(s0, path, assetName), path, assetName)
    ELSE IF assetName \in s0.visited THEN s0
    ELSE
        LET st1 == [Enter(s0, assetName) EXCEPT !.expanded = Append(@, assetName)]
            a == Find(assets, assetName)
            st2 == IF a # 0
                   THEN dfsDepends(assets, st1, assets[a].depends, 1, Append(path, assetName))
                   ELSE st1
        IN [st2 EXCEPT !.recursionStack = @ \ {assetName}]

\* for (const dependency of asset.depends) dfs(dependency, [...path, assetName])
dfsDepends(assets, st, depends, i, path) ==
    IF i > Len(depends) THEN st
    ELSE dfsDepends(assets, dfs(assets, st, depends[i], path), depends, i + 1, path)

RECURSIVE dfsRoots(_, _, _)
dfsRoots(assets, st, i) ==
    IF i > Len(assets) THEN st
    ELSE dfsRoots(assets,
                  IF assets[i].name \notin st.visited
                  THEN dfs(assets, st, assets[i].name, << >>)
                  ELSE st,
                  i + 1)

\* The traversal state when findCircularDependencies returns.
dfsRun(assets) ==
    dfsRoots(assets, [cycles |-> << >>, visited |-> {}, recursionStack |-> {},
                      calls |-> 0, expanded |-> << >>, backEdges |-> << >>], 1)

findCircularDependencies(assets) == dfsRun(assets).cycles

\* ----------------------------------------------------------- topologicalSort
\* temp.delete(assetName); visited.add(assetName); sorted.unshift(asset)
FinishNotVisited(st, assetName, asset) ==
    [sorted |-> <<asset>> \o st.sorted,
     visited |-> st.visited,
     temp |-> st.temp \ {assetName}]

FinishOverwrite(st, assetName, asset) ==
    [sorted |-> <<asset>>,
     visited |-> st.visited \cup {assetName},
     temp |-> st.temp \ {assetName}]

FinishKeepsTemp(st, assetName, asset) ==
    [sorted |-> <<asset>> \o st.sorted,
     visited |-> st.visited \cup {assetName},
     temp |-> st.temp]

\* A variant that puts the finished descriptor at the end of the order.
FinishPush(st, assetName, asset) ==
    [sorted |-> Append(st.sorted, asset),
     visited |-> st.visited \cup {assetName},
     temp |-> st.temp \ {assetName}]

Finish(st, assetName, asset) ==
    [sorted |-> <<asset>> \o st.sorted,
     visited |-> st.visited \cup {assetName},
     temp |-> st.temp \ {assetName}]

RECURSIVE visit(_, _, _), visitDepends(_, _, _, _)

\* A variant without the test for a finished name.
visitFinishedAgain(assets, st, assetName) ==
    IF assetName \in st.temp THEN st
    ELSE
        LET st1 == [st EXCEPT !.temp = @ \cup {assetName}]
            a == Find(assets, assetName)
        IN IF a # 0
           THEN Finish(visitDepends(assets, st1, assets[a].depends, 1), assetName, assets[a])
           ELSE st1

visit(assets, st, assetName) ==
    IF assetName \in st.temp THEN st
    ELSE IF assetName \in st.visited THEN st
    ELSE
        LET st1 == [st EXCEPT !.temp = @ \cup {assetName}]
            a == Find(assets, assetName)
        IN IF a # 0
           THEN Finish(visitDepends(assets, st1, assets[a].depends, 1), assetName, assets[a])
           ELSE st1

\* A variant that enters every declared name into the order, also one that
\* no descriptor has.
visitDependsUnresolved(assets, st, depends, i) ==
    IF i > Len(depends) THEN st
    ELSE visitDepends(assets,
                      IF Find(assets, depends[i]) # 0
                      THEN visit(assets, st, depends[i])
                      ELSE [st EXCEPT !.sorted =
                                <<[name |-> depends[i], path |-> 0, depends |-> << >>]>> \o @],
                      depends, i + 1)

\* asset.depends.forEach(dep => { if (assets.find(a => a.name === dep)) visit(dep) })
visitDepends(assets, st, depends, i) ==
    IF i > Len(depends) THEN st
    ELSE visitDepends(assets,
                      IF Find(assets, depends[i]) # 0
                      THEN visit(assets, st, depends[i])
                      ELSE st,
                      depends, i + 1)

RECURSIVE visitRoots(_, _, _)
visitRoots(assets, st, i) ==
    IF i > Len(assets) THEN st
    ELSE visitRoots(assets,
                    IF assets[i].name \notin st.visited
                    THEN visit(assets, st, assets[i].name)
                    ELSE st,
                    i + 1)

\* The marker sets and the order when topologicalSort returns.
visitRun(assets) ==
    visitRoots(assets, [sorted |-> << >>, visited |-> {}, temp |-> {}], 1)

topologicalSort(assets) == visitRun(assets).sorted

\* ------------------------------------------------------------------- state
VARIABLES
    projectAssets,  \* what getAllAssets extracts from the project directory
    request,        \* argument of the last analyzeAssetDependencies call
    outcome,        \* "idle" | "resolved" | "rejected"
    errorMessage,   \* the Error message of a rejection, as the sequence of its parts
    rootAssets,     \* full analysis: "Root Assets"
    complexAssets,  \* full analysis: "Assets with Complex Dependencies"
    circularDeps,   \* full analysis: "Potential Circular Dependencies"
    sortedAssets,   \* full analysis: "Recommended Registration Order"
    reportAsset,    \* single report: the descriptor analysed (<<asset>>)
    reportDepends,  \* single report: "Dependencies"
    dependents,     \* single report: "Used By"
    project,        \* the project directory on disk, as far as getAllAssets reads it
    scanStatus,     \* getAllAssets: "none" | "returned" | "failed"
    db,             \* DatabaseManager: its connection and the executeQuery call in progress
    shell,          \* the tool call that may launch a console command, and what it launched
    pool,           \* DatabaseManager under concurrent callers: connections made and cached
    handler         \* the CallTool request handler: the request in progress and its reply

vars == <<projectAssets, request, outcome, errorMessage, rootAssets, complexAssets,
          circularDeps, sortedAssets, reportAsset, reportDepends, dependents,
          project, scanStatus, db, shell, pool, handler>>

\* What the dependency analysis leaves alone.
extractVars == <<project, scanStatus>>

\* The database manager between two calls: connection is whether
\* this.connection holds a connection.
DbAtRest(connection) ==
    [connection |-> connection, pc |-> "idle",
     query |-> [given |-> FALSE, text |-> << >>], limit |-> "",
     finalQuery |-> << >>, statement |-> << >>, outcome |-> "none", error |-> ""]

\* No tool call that launches a process is in progress.
ShellAtRest ==
    [tool |-> "", launched |-> << >>, outcome |-> "none"]

\* No connection was ever made and no caller is inside getConnection or
\* close.  connection is this.connection (0 is null), open the connections
\* created and not ended, made their number.
PoolAtRest ==
    [connection |-> 0, open |-> {}, made |-> 0,
     callers |-> << >>, ending |-> 0]

\* No request is being handled.
NoReply == [status |-> "none", text |-> << >>]

HandlerAtRest == [pc |-> "idle", name |-> "", reply |-> NoReply, served |-> 0]

serviceVars == <<db, shell, pool, handler>>

ServicesAtRest ==
    /\ db = DbAtRest(FALSE)
    /\ shell = ShellAtRest
    /\ pool = PoolAtRest
    /\ handler = HandlerAtRest

\* In the analysis of a given descriptor sequence the directory tree is
\* represented by what was extracted from it, projectAssets.
Extraction == [kind |-> "extracted"]

NoRequest == [given |-> FALSE, name |-> << >>]

Requests == {NoRequest} \cup {[given |-> TRUE, name |-> n] : n \in AssetNames \cup {<< >>}}

Init ==
    /\ Extracted(projectAssets)
    /\ request = NoRequest
    /\ outcome = "idle"
    /\ errorMessage = << >>
    /\ rootAssets = << >>
    /\ complexAssets = << >>
    /\ circularDeps = << >>
    /\ sortedAssets = << >>
    /\ reportAsset = << >>
    /\ reportDepends = << >>
    /\ dependents = << >>
    /\ project = Extraction
    /\ scanStatus = "returned"
    /\ ServicesAtRest

\* A variant that takes only descriptors without dependencies for roots.
IsRootWithoutDepends(asset) ==
    Len(asset.depends) = 0

IsRoot(asset) ==
    Len(asset.depends) = 0 \/ \A i \in DOMAIN asset.depends : StartsWithYii(asset.depends[i])

IsComplex(asset) == Len(asset.depends) > 2

\* A variant whose message does not echo the name.
AnalyzeNotFoundAnonymous(arg) ==
    /\ Truthy(arg)
    /\ Find(projectAssets, arg.name) = 0
    /\ request' = arg
    /\ outcome' = "rejected"
    /\ errorMessage' = <<<<"Failed to analyze asset dependencies: ">>, <<"Asset not found">>>>
    /\ rootAssets' = << >>
    /\ complexAssets' = << >>
    /\ circularDeps' = << >>
    /\ sortedAssets' = << >>
    /\ reportAsset' = << >>
    /\ reportDepends' = << >>
    /\ dependents' = << >>
    /\ UNCHANGED <<projectAssets, extractVars, serviceVars>>

\* analyzeAssetDependencies with a truthy name that assets.find does not find:
\* the inner Error is caught and rethrown with the outer prefix.
AnalyzeNotFound(arg) ==
    /\ Truthy(arg)
    /\ Find(projectAssets, arg.name) = 0
    /\ request' = arg
    /\ outcome' = "rejected"
    /\ errorMessage' = <<<<"Failed to analyze asset dependencies: ">>, <<"Asset '">>, arg.name,
                        <<"' not found">>>>
    /\ rootAssets' = << >>
    /\ complexAssets' = << >>
    /\ circularDeps' = << >>
    /\ sortedAssets' = << >>
    /\ reportAsset' = << >>
    /\ reportDepends' = << >>
    /\ dependents' = << >>
    /\ UNCHANGED <<projectAssets, extractVars, serviceVars>>

\* A variant whose reverse lookup leaves the analysed descriptor out.
analyzeSpecificAssetOthersOnly(arg) ==
    /\ Truthy(arg)
    /\ Find(projectAssets, arg.name) # 0
    /\ LET asset == projectAssets[Find(projectAssets, arg.name)]
           DependsOnIt(a) == a # asset /\ Includes(a.depends, asset.name)
       IN /\ reportAsset' = <<asset>>
          /\ reportDepends' = asset.depends
          /\ dependents' = SelectSeq(projectAssets, DependsOnIt)
    /\ request' = arg
    /\ outcome' = "resolved"
    /\ errorMessage' = << >>
    /\ rootAssets' = << >>
    /\ complexAssets' = << >>
    /\ circularDeps' = << >>
    /\ sortedAssets' = << >>
    /\ UNCHANGED <<projectAssets, extractVars, serviceVars>>

\* A variant whose reverse lookup follows dependencies transitively.
analyzeSpecificAssetTransitive(arg) ==
    /\ Truthy(arg)
    /\ Find(projectAssets, arg.name) # 0
    /\ LET asset == projectAssets[Find(projectAssets, arg.name)]
           Names == {projectAssets[i].name : i \in DOMAIN projectAssets}
           Step(S) == S \cup {projectAssets[i].name : i \in
                                {j \in DOMAIN projectAssets :
                                    \E d \in S : Includes(projectAssets[j].depends, d)}}
           DependsOnIt(a) == \E d \in Step(Step({asset.name})) : Includes(a.depends, d)
       IN /\ reportAsset' = <<asset>>
          /\ reportDepends' = asset.depends
          /\ dependents' = SelectSeq(projectAssets, DependsOnIt)
    /\ request' = arg
    /\ outcome' = "resolved"
    /\ errorMessage' = << >>
    /\ rootAssets' = << >>
    /\ complexAssets' = << >>
    /\ circularDeps' = << >>
    /\ sortedAssets' = << >>
    /\ UNCHANGED <<projectAssets, extractVars, serviceVars>>

\* analyzeSpecificAsset(asset, allAssets)
analyzeSpecificAsset(arg) ==
    /\ Truthy(arg)
    /\ Find(projectAssets, arg.name) # 0
    /\ LET asset == projectAssets[Find(projectAssets, arg.name)]
           DependsOnIt(a) == Includes(a.depends, asset.name)
       IN /\ reportAsset' = <<asset>>
          /\ reportDepends' = asset.depends
          /\ dependents' = SelectSeq(projectAssets, DependsOnIt)
    /\ request' = arg
    /\ outcome' = "resolved"
    /\ errorMessage' = << >>
    /\ rootAssets' = << >>
    /\ complexAssets' = << >>
    /\ circularDeps' = << >>
    /\ sortedAssets' = << >>
    /\ UNCHANGED <<projectAssets, extractVars, serviceVars>>

\* analyzeAssetDependencies without a (truthy) name: the full analysis.
AnalyzeAll(arg) ==
    /\ ~Truthy(arg)
    /\ rootAssets' = SelectSeq(projectAssets, IsRoot)
    /\ complexAssets' = SelectSeq(projectAssets, IsComplex)
    /\ circularDeps' = findCircularDependencies(projectAssets)
    /\ sortedAssets' = topologicalSort(projectAssets)
    /\ request' = arg
    /\ outcome' = "resolved"
    /\ errorMessage' = << >>
    /\ reportAsset' = << >>
    /\ reportDepends' = << >>
    /\ dependents' = << >>
    /\ UNCHANGED <<projectAssets, extractVars, serviceVars>>

\* One tool invocation: the descriptors are extracted, analysed, and the
\* promise settles.
analyzeAssetDependencies ==
    /\ outcome = "idle"
    /\ \E arg \in Requests :
        \/ AnalyzeNotFound(arg)
        \/ analyzeSpecificAsset(arg)
        \/ AnalyzeAll(arg)

\* The caller takes the settled result; nothing of the analysis is kept.
Respond ==
    /\ outcome # "idle"
    /\ request' = NoRequest
    /\ outcome' = "idle"
    /\ errorMessage' = << >>
    /\ rootAssets' = << >>
    /\ complexAssets' = << >>
    /\ circularDeps' = << >>
    /\ sortedAssets' = << >>
    /\ reportAsset' = << >>
    /\ reportDepends' = << >>
    /\ dependents' = << >>
    /\ UNCHANGED <<projectAssets, extractVars, serviceVars>>

Next ==
    \/ analyzeAssetDependencies
    \/ Respond

Spec == Init /\ [][Next]_vars

\* ---------------------------------------------------- interlinked projects
\* Projects whose files have distinct base names and whose $depends entries
\* all name files of the project: up to MaxEdges entries in the whole project.
MaxEdges == 4

Interlinked(assets) ==
    \E n \in 1..MaxAssets :
        \E m \in 0..MaxEdges :
            \E o \in [1..m -> 1..n] :
                /\ FileByFile(o)
                /\ \E e \in [1..m -> {AssetName(k) : k \in 1..n}] :
                      assets = [i \in 1..n |-> AssetInfo(i, i, DependsOf(i, o, e))]

InitInterlinked ==
    /\ Interlinked(projectAssets)
    /\ request = NoRequest
    /\ outcome = "idle"
    /\ errorMessage = << >>
    /\ rootAssets = << >>
    /\ complexAssets = << >>
    /\ circularDeps = << >>
    /\ sortedAssets = << >>
    /\ reportAsset = << >>
    /\ reportDepends = << >>
    /\ dependents = << >>
    /\ project = Extraction
    /\ scanStatus = "returned"
    /\ ServicesAtRest

\* asset_analyze_dependencies without asset_name: the full analysis.
AnalyzeProject ==
    /\ outcome = "idle"
    /\ AnalyzeAll(NoRequest)

NextInterlinked ==
    \/ AnalyzeProject
    \/ Respond

SpecInterlinked == InitInterlinked /\ [][NextInterlinked]_vars

\* ------------------------------------------------------------- extraction
\* getAllAssets and what it calls: findAssets, findModuleAssets and
\* parseAssetFile, over the part of the project directory they read.

MaxEntries == 2     \* directory entries below the three roots
MaxWritten == 2     \* entries written inside one $depends array

\* An entry name is given by what the code asks of it: the name without its
\* '.php' extension (stem) and its last word with the extension (tail).
EntryName(stem, tail) == [stem |-> stem, tail |-> tail]

FileNames ==
    { EntryName("AppAsset", "Asset.php"),
      EntryName("ThemeBundle", "Bundle.php"),
      EntryName("AssetHelper", "Helper.php") }

endsWith(file, suffix) == file.tail = suffix

basename(file) == <<file.stem>>

\* Directories are paths below projectPath.
assetsPath == <<"assets">>
modulesPath == <<"modules">>
widgetsPath == <<"widgets">>
RootNames == {"assets", "modules", "widgets"}
RootKinds == {"missing", "unlistable", "listed"}

SubDirs ==
    { [parent |-> assetsPath, name |-> EntryName("dist", "dist")],
      [parent |-> modulesPath, name |-> EntryName("admin", "admin")],
      [parent |-> <<"modules", "admin">>, name |-> EntryName("widgets", "widgets")] }

FileDirs ==
    { assetsPath, <<"assets", "dist">>, <<"modules", "admin">>,
      <<"modules", "admin", "widgets">>, widgetsPath }

\* stat: statSync and existsSync succeed on the entry; read: readFileSync
\* (file) or readdirSync (directory) succeeds on it.
Healths ==
    { [stat |-> TRUE, read |-> TRUE],
      [stat |-> FALSE, read |-> FALSE],
      [stat |-> TRUE, read |-> FALSE] }

FileEntry(parent, name, health, written) ==
    [parent |-> parent, kind |-> "file", name |-> name,
     stat |-> health.stat, read |-> health.read, written |-> written]

DirEntry(parent, name, health) ==
    [parent |-> parent, kind |-> "dir", name |-> name,
     stat |-> health.stat, read |-> health.read, written |-> << >>]

EntryPath(entry) == Append(entry.parent, entry.name.stem)

Entries ==
    { FileEntry(d, n, h, << >>) : d \in FileDirs, n \in FileNames, h \in Healths }
    \cup { DirEntry(s.parent, s.name, h) : s \in SubDirs, h \in Healths }

\* An entry lies in a listed root or in a directory entry met before it, and
\* a directory lists no name twice.
Placed(roots, entries, entry) ==
    /\ IF Len(entry.parent) = 1
       THEN roots[entry.parent[1]] = "listed"
       ELSE \E i \in DOMAIN entries :
                entries[i].kind = "dir" /\ EntryPath(entries[i]) = entry.parent
    /\ \A i \in DOMAIN entries :
           ~(entries[i].parent = entry.parent /\ entries[i].name = entry.name)

RECURSIVE Listings(_, _)
Listings(roots, n) ==
    IF n = 0 THEN {<< >>}
    ELSE LET shorter == Listings(roots, n - 1)
         IN shorter \cup { Append(es, e) : <<es, e>> \in
                            { pair \in shorter \X Entries :
                                /\ Len(pair[1]) = n - 1
                                /\ Placed(roots, pair[1], pair[2]) } }

Front(path) == SubSeq(path, 1, Len(path) - 1)

Last(path) == path[Len(path)]

readdirSync(p, dirPath) == SelectSeq(p.entries, LAMBDA e : e.parent = dirPath)

existsSync(p, path) ==
    IF Len(path) = 1
    THEN p.roots[path[1]] # "missing"
    ELSE \E i \in DOMAIN p.entries :
            /\ p.entries[i].parent = Front(path)
            /\ p.entries[i].name.stem = Last(path)
            /\ p.entries[i].stat

\* readdirSync returns a listing instead of throwing.
Lists(p, dirPath) ==
    IF Len(dirPath) = 1
    THEN p.roots[dirPath[1]] = "listed"
    ELSE \E i \in DOMAIN p.entries :
            /\ p.entries[i].kind = "dir"
            /\ EntryPath(p.entries[i]) = dirPath
            /\ p.entries[i].stat
            /\ p.entries[i].read

\* The names that appear with a scope operator, as the text the second
\* alternative of the pattern matches (\w+ does not cross a backslash).
ScopedText ==
    [AppAsset |-> "AppAsset::class",
     ThemeBundle |-> "ThemeBundle::class",
     JqueryAsset |-> "JqueryAsset::class"]

WrittenNames == { <<"AppAsset">>, <<"ThemeBundle">>, <<"yii", "web", "JqueryAsset">> }

\* 'Name', "Name" and Name::class
WrittenShapes == {"single", "double", "scoped"}

Written == [shape : WrittenShapes, name : WrittenNames]

\* content.match(/'([^']+)'|(\w+::\w+)/g): the texts matched, in order.
RECURSIVE dependsMatch(_, _)
dependsMatch(written, i) ==
    IF i > Len(written) THEN << >>
    ELSE LET w == written[i]
             rest == dependsMatch(written, i + 1)
         IN IF w.shape = "single"
            THEN <<[quoted |-> TRUE, text |-> w.name]>> \o rest
            ELSE IF w.shape = "scoped"
            THEN <<[quoted |-> FALSE, text |-> <<ScopedText[Last(w.name)]>>]>> \o rest
            ELSE rest

\* dep.replace(/'/g, '')
StripQuotes(match) == match.text

parseDepends(written) ==
    LET dependencies == dependsMatch(written, 1)
    IN [i \in DOMAIN dependencies |-> StripQuotes(dependencies[i])]

\* null is << >>, a descriptor is <<descriptor>>.
parseAssetFile(file) ==
    IF ~file.read THEN << >>
    ELSE <<[name |-> basename(file.name),
            path |-> [dir |-> file.parent, file |-> file.name],
            depends |-> parseDepends(file.written)]>>

RECURSIVE findAssets(_, _), findAssetsLoop(_, _, _)

\* The loop of findAssets from the i-th listed file on.  A statSync that
\* throws leaves the loop for the catch around it.
findAssetsLoop(p, files, i) ==
    IF i > Len(files) THEN << >>
    ELSE LET file == files[i]
             rest == findAssetsLoop(p, files, i + 1)
         IN IF ~file.stat THEN << >>
            ELSE IF file.kind = "dir"
            THEN findAssets(p, EntryPath(file)) \o rest
            ELSE IF endsWith(file.name, "Asset.php") \/ endsWith(file.name, "Bundle.php")
            THEN parseAssetFile(file) \o rest
            ELSE rest

findAssets(p, dirPath) ==
    IF Lists(p, dirPath)
    THEN findAssetsLoop(p, readdirSync(p, dirPath), 1)
    ELSE << >>

findModuleAssets(p, modulePath) ==
    LET moduleWidgetsPath == Append(modulePath, "widgets")
    IN findAssets(p, modulePath)
       \o (IF existsSync(p, moduleWidgetsPath)
           THEN findAssets(p, moduleWidgetsPath)
           ELSE << >>)

RECURSIVE moduleAssets(_, _, _)
moduleAssets(p, moduleNames, i) ==
    IF i > Len(moduleNames) THEN << >>
    ELSE LET moduleAssetsPath == EntryPath(moduleNames[i])
         IN (IF existsSync(p, moduleAssetsPath)
             THEN findModuleAssets(p, moduleAssetsPath)
             ELSE << >>)
            \o moduleAssets(p, moduleNames, i + 1)

Returned(assets) == [status |-> "returned", assets |-> assets]

Failed == [status |-> "failed", assets |-> << >>]

getAllAssetsStrict(p) ==
    IF \E r \in RootNames : ~Lists(p, <<r>>)
    THEN Failed
    ELSE Returned(findAssets(p, assetsPath)
                  \o moduleAssets(p, readdirSync(p, modulesPath), 1)
                  \o findAssets(p, widgetsPath))

getAllAssets(p) ==
    IF existsSync(p, modulesPath) /\ ~Lists(p, modulesPath)
    THEN Failed
    ELSE Returned((IF existsSync(p, assetsPath) THEN findAssets(p, assetsPath) ELSE << >>)
                  \o (IF existsSync(p, modulesPath)
                      THEN moduleAssets(p, readdirSync(p, modulesPath), 1)
                      ELSE << >>)
                  \o (IF existsSync(p, widgetsPath) THEN findAssets(p, widgetsPath) ELSE << >>))

AnalysisIdle ==
    /\ request = NoRequest
    /\ outcome = "idle"
    /\ errorMessage = << >>
    /\ rootAssets = << >>
    /\ complexAssets = << >>
    /\ circularDeps = << >>
    /\ sortedAssets = << >>
    /\ reportAsset = << >>
    /\ reportDepends = << >>
    /\ dependents = << >>

InitExtract ==
    /\ \E roots \in [RootNames -> RootKinds] :
         \E entries \in Listings(roots, MaxEntries) :
            project = [roots |-> roots, entries |-> entries]
    /\ scanStatus = "none"
    /\ projectAssets = << >>
    /\ AnalysisIdle
    /\ ServicesAtRest

\* Two files in assets/, the second one with a $depends array.
InitParse ==
    /\ \E n \in 0..MaxWritten :
         \E written \in [1..n -> Written] :
            project =
              [roots |-> [r \in RootNames |->
                            IF r = "assets" THEN "listed" ELSE "missing"],
               entries |->
                 <<FileEntry(assetsPath, EntryName("AppAsset", "Asset.php"),
                             [stat |-> TRUE, read |-> TRUE], << >>),
                   FileEntry(assetsPath, EntryName("ThemeBundle", "Bundle.php"),
                             [stat |-> TRUE, read |-> TRUE], written)>>]
    /\ scanStatus = "none"
    /\ projectAssets = << >>
    /\ AnalysisIdle
    /\ ServicesAtRest

GetAllAssets ==
    /\ scanStatus = "none"
    /\ LET result == getAllAssets(project)
       IN /\ scanStatus' = result.status
          /\ projectAssets' = result.assets
    /\ UNCHANGED <<project, request, outcome, errorMessage, rootAssets, complexAssets,
                   circularDeps, sortedAssets, reportAsset, reportDepends, dependents,
                   serviceVars>>

NextExtract == GetAllAssets

SpecExtract == InitExtract /\ [][NextExtract]_vars

SpecParse == InitParse /\ [][NextExtract]_vars

\* One module, modules/admin, with a widgets sub-directory, and up to
\* MaxEntries files in the two directories.
ModuleDirs == { <<"modules", "admin">>, <<"modules", "admin", "widgets">> }

ModuleFiles ==
    { FileEntry(d, n, h, << >>) : d \in ModuleDirs, n \in FileNames, h \in Healths }

InitModule ==
    /\ \E adminHealth \in Healths, widgetsHealth \in Healths :
         \E n \in 0..MaxEntries :
            \E files \in [1..n -> ModuleFiles] :
               /\ \A i, j \in 1..n :
                     (files[i].parent = files[j].parent /\ files[i].name = files[j].name)
                        => i = j
               /\ project =
                     [roots |-> [r \in RootNames |->
                                   IF r = "modules" THEN "listed" ELSE "missing"],
                      entries |->
                        <<DirEntry(modulesPath, EntryName("admin", "admin"), adminHealth),
                          DirEntry(<<"modules", "admin">>, EntryName("widgets", "widgets"),
                                   widgetsHealth)>> \o files]
    /\ scanStatus = "none"
    /\ projectAssets = << >>
    /\ AnalysisIdle
    /\ ServicesAtRest

SpecModule == InitModule /\ [][NextExtract]_vars

\* --------------------------------------------------------------- database
\* DatabaseManager.executeQuery.  A query text is the sequence of its tokens;
\* " " stands for a run of white space.

MaxTokens == 3      \* tokens in a query text

Tokens == {" ", "SELECT", "select", "selected", "DELETE", "users", "LIMIT"}

QueryTexts == UNION { [1..n -> Tokens] : n \in 0..MaxTokens }

\* args?.query as string: a text, or undefined.
QueryArgs ==
    { [given |-> TRUE, text |-> t] : t \in QueryTexts }
    \cup { [given |-> FALSE, text |-> << >>] }

\* (args?.limit as number) || 100, as the template literal prints it.
Limits == {"100", "5"}

toLowerCaseToken(token) ==
    CASE token = "SELECT" -> "select"
      [] token = "DELETE" -> "delete"
      [] token = "LIMIT" -> "limit"
      [] OTHER -> token

toLowerCase(text) == [i \in DOMAIN text |-> toLowerCaseToken(text[i])]

RECURSIVE trimStart(_)
trimStart(text) ==
    IF text # << >> /\ Head(text) = " " THEN trimStart(Tail(text)) ELSE text

RECURSIVE trimEnd(_)
trimEnd(text) ==
    IF text # << >> /\ text[Len(text)] = " " THEN trimEnd(Front(text)) ELSE text

trim(text) == trimEnd(trimStart(text))

\* The lower-case tokens that have the word as a prefix, as a substring.
PrefixedBy(word) ==
    CASE word = "select" -> {"select", "selected"}
      [] OTHER -> {word}

Containing(word) ==
    CASE word = "select" -> {"select", "selected"}
      [] OTHER -> {word}

startsWith(text, word) == text # << >> /\ text[1] \in PrefixedBy(word)

includes(text, word) == \E i \in DOMAIN text : text[i] \in Containing(word)

\* finalQuery += ` LIMIT ${limit}`
WithLimit(query, limit) == query \o <<" ", "LIMIT", " ", limit>>

OnlySelectAllowed == "Query execution failed: Only SELECT queries are allowed for security reasons"

QueryFailed == "Query execution failed"

Reject(d, message) ==
    [d EXCEPT !.pc = "done", !.outcome = "rejected", !.error = message]

analysisVars ==
    <<projectAssets, request, outcome, errorMessage, rootAssets, complexAssets,
      circularDeps, sortedAssets, reportAsset, reportDepends, dependents>>

\* A variant that opens the connection before it looks at the query.
executeQueryConnectsFirst ==
    /\ db.pc = "idle"
    /\ \E query \in QueryArgs, limit \in Limits :
         LET called == [db EXCEPT !.query = query, !.limit = limit, !.connection = TRUE]
         IN IF ~query.given
            THEN db' = Reject(called, QueryFailed)
            ELSE LET trimmedQuery == toLowerCase(trim(query.text))
                 IN IF ~startsWith(trimmedQuery, "select")
                    THEN db' = Reject(called, OnlySelectAllowed)
                    ELSE db' = [called EXCEPT !.pc = "getConnection"]
    /\ UNCHANGED <<analysisVars, extractVars, shell, pool, handler>>

\* executeQuery up to its first await: the security check.  query.trim() on
\* undefined throws and is caught like every other error.
executeQuery ==
    /\ db.pc = "idle"
    /\ \E query \in QueryArgs, limit \in Limits :
         LET called == [db EXCEPT !.query = query, !.limit = limit]
         IN IF ~query.given
            THEN db' = Reject(called, QueryFailed)
            ELSE LET trimmedQuery == toLowerCase(trim(query.text))
                 IN IF ~startsWith(trimmedQuery, "select")
                    THEN db' = Reject(called, OnlySelectAllowed)
                    ELSE db' = [called EXCEPT !.pc = "getConnection"]
    /\ UNCHANGED <<analysisVars, extractVars, shell, pool, handler>>

\* await this.getConnection(), then the limit is added.  createConnection
\* resolves or rejects.
getConnection ==
    /\ db.pc = "getConnection"
    /\ LET trimmedQuery == toLowerCase(trim(db.query.text))
           finalQuery == IF ~includes(trimmedQuery, "limit")
                         THEN WithLimit(db.query.text, db.limit)
                         ELSE db.query.text
       IN \/ db' = [db EXCEPT !.connection = TRUE, !.pc = "execute",
                              !.finalQuery = finalQuery]
          \/ /\ ~db.connection
             /\ db' = Reject(db, QueryFailed)
    /\ UNCHANGED <<analysisVars, extractVars, shell, pool, handler>>

\* await connection.execute(finalQuery): the statement is sent, and the
\* server answers with rows or with an error.
connectionExecute ==
    /\ db.pc = "execute"
    /\ \/ db' = [db EXCEPT !.statement = db.finalQuery, !.pc = "done",
                           !.outcome = "returned"]
       \/ db' = [Reject(db, QueryFailed) EXCEPT !.statement = db.finalQuery]
    /\ UNCHANGED <<analysisVars, extractVars, shell, pool, handler>>

\* The caller takes the settled result; the connection is kept.
QuerySettled ==
    /\ db.pc = "done"
    /\ db' = DbAtRest(db.connection)
    /\ UNCHANGED <<analysisVars, extractVars, shell, pool, handler>>

\* Nothing has been called yet.
InitServices ==
    /\ projectAssets = << >>
    /\ AnalysisIdle
    /\ project = Extraction
    /\ scanStatus = "none"
    /\ ServicesAtRest

NextDb ==
    \/ executeQuery
    \/ getConnection
    \/ connectionExecute
    \/ QuerySettled

SpecDb == InitServices /\ [][NextDb]_vars

\* --------------------------------------------------------------- commands
\* The tools that launch a console command with execAsync: executeCommand,
\* rollbackMigration and clearCache.  A command line is the sequence of its
\* space-separated words.

MaxWords == 2       \* words in the command argument of executeCommand
MaxArgs == 1        \* entries of its args array

Words == {"migrate/fresh", "migrate/down", "cache/flush-all", "cache/flush", "migrate/up", "2"}

CommandArgs == UNION { [1..n -> Words] : n \in 1..MaxWords }

ArgsArgs == UNION { [1..n -> Words] : n \in 0..MaxArgs }

dangerousCommands == <<"migrate/fresh", "migrate/down", "cache/flush-all">>

\* command.includes(dangerous): none of the words contains another one of
\* the dangerous commands as a proper substring.
commandIncludes(command, dangerous) ==
    \E i \in DOMAIN command : command[i] = dangerous

yiiScript == "yii"

\* execAsync(line): the process is launched, and exits with or without error.
execAsync(tool, line) ==
    \E exit \in {"executed", "failed"} :
        shell' = [tool |-> tool, launched |-> line, outcome |-> exit]

NotLaunched(tool, result) ==
    shell' = [tool |-> tool, launched |-> << >>, outcome |-> result]

executeCommand ==
    /\ shell.outcome = "none"
    /\ \E command \in CommandArgs, args \in ArgsArgs, interactive \in BOOLEAN :
         IF \E d \in DOMAIN dangerousCommands :
                commandIncludes(command, dangerousCommands[d])
         THEN NotLaunched("yii_execute_command", "blocked")
         ELSE LET fullCommand == <<"php", yiiScript>> \o command \o args
              IN IF interactive
                 THEN NotLaunched("yii_execute_command", "manual")
                 ELSE execAsync("yii_execute_command", fullCommand)
    /\ UNCHANGED <<analysisVars, extractVars, db, pool, handler>>

\* steps and dryRun with their defaults 1 and true among the values.
rollbackMigration ==
    /\ shell.outcome = "none"
    /\ \E steps \in {"1", "2"}, dryRun \in BOOLEAN :
         LET command == IF dryRun
                        THEN <<"php", "yii", "migrate/down", steps, "--interactive=0", "--dry-run=1">>
                        ELSE <<"php", "yii", "migrate/down", steps, "--interactive=0">>
         IN execAsync("migration_rollback", command)
    /\ UNCHANGED <<analysisVars, extractVars, db, pool, handler>>

executeCacheCommand(command, args) ==
    execAsync("cache_clear", <<"php", "yii", command>> \o args)

CacheTypes == {"all", "data", "schema", "template", "assets", "opcache", "unknown"}

clearCache ==
    /\ shell.outcome = "none"
    /\ \E type \in CacheTypes :
         CASE type = "all" -> executeCacheCommand("cache/flush-all", << >>)
           [] type = "data" -> executeCacheCommand("cache/flush", << >>)
           [] type = "schema" -> executeCacheCommand("cache/flush-schema", << >>)
           [] type = "template" -> executeCacheCommand("cache/flush", <<"template">>)
           [] type = "assets" -> executeCacheCommand("asset/compress", << >>)
           [] type = "opcache" -> executeCacheCommand("cache/flush-opcache", << >>)
           [] OTHER -> NotLaunched("cache_clear", "failed")
    /\ UNCHANGED <<analysisVars, extractVars, db, pool, handler>>

\* The caller takes the settled result.
CommandSettled ==
    /\ shell.outcome # "none"
    /\ shell' = ShellAtRest
    /\ UNCHANGED <<analysisVars, extractVars, db, pool, handler>>

NextShell ==
    \/ executeCommand
    \/ rollbackMigration
    \/ clearCache
    \/ CommandSettled

SpecShell == InitServices /\ [][NextShell]_vars

\* ------------------------------------------------------ shared connection
\* DatabaseManager.getConnection and close when several tool invocations are
\* in progress at once: each await is a point where another one may run.

MaxCallers == 2         \* tool invocations in progress at the same time
MaxConnections == 3     \* connections made over the life of the manager

Callers == 1..MaxCallers

\* The same callers, none of them inside getConnection.
InitPool ==
    /\ projectAssets = << >>
    /\ AnalysisIdle
    /\ project = Extraction
    /\ scanStatus = "none"
    /\ db = DbAtRest(FALSE)
    /\ shell = ShellAtRest
    /\ handler = HandlerAtRest
    /\ pool = [PoolAtRest EXCEPT !.callers = [c \in Callers |-> [pc |-> "idle", holds |-> 0]]]

othersThanPool == <<analysisVars, extractVars, db, shell, handler>>

\* if (!this.connection): with a cached connection it is returned; without
\* one mysql.createConnection is called and awaited.
getConnectionTest(c) ==
    /\ pool.callers[c].pc = "idle"
    /\ IF pool.connection # 0
       THEN pool' = [pool EXCEPT !.callers[c] = [pc |-> "using", holds |-> pool.connection]]
       ELSE pool' = [pool EXCEPT !.callers[c].pc = "creating"]
    /\ UNCHANGED othersThanPool

\* createConnection resolves: this.connection = <the new connection>.
createConnectionResolves(c) ==
    /\ pool.callers[c].pc = "creating"
    /\ pool.made < MaxConnections
    /\ LET made == pool.made + 1
       IN pool' = [pool EXCEPT !.made = made,
                               !.open = @ \cup {made},
                               !.connection = made,
                               !.callers[c] = [pc |-> "using", holds |-> made]]
    /\ UNCHANGED othersThanPool

\* createConnection rejects: the caller's method fails.
createConnectionRejects(c) ==
    /\ pool.callers[c].pc = "creating"
    /\ pool' = [pool EXCEPT !.callers[c] = [pc |-> "idle", holds |-> 0]]
    /\ UNCHANGED othersThanPool

\* The caller's method is through with the connection it was given.
callerReturns(c) ==
    /\ pool.callers[c].pc = "using"
    /\ pool' = [pool EXCEPT !.callers[c] = [pc |-> "idle", holds |-> 0]]
    /\ UNCHANGED othersThanPool

\* close(): if (this.connection) await this.connection.end()
closeStarts ==
    /\ pool.ending = 0
    /\ pool.connection # 0
    /\ pool' = [pool EXCEPT !.ending = pool.connection]
    /\ UNCHANGED othersThanPool

\* end() has resolved: this.connection = null
closeEnds ==
    /\ pool.ending # 0
    /\ pool' = [pool EXCEPT !.open = @ \ {pool.ending},
                            !.connection = 0,
                            !.ending = 0]
    /\ UNCHANGED othersThanPool

NextPool ==
    \/ \E c \in Callers : getConnectionTest(c)
    \/ \E c \in Callers : createConnectionResolves(c)
    \/ \E c \in Callers : createConnectionRejects(c)
    \/ \E c \in Callers : callerReturns(c)
    \/ closeStarts
    \/ closeEnds

SpecPool == InitPool /\ [][NextPool]_vars

\* ---------------------------------------------------------------- handler
\* The CallToolRequestSchema handler around the tool implementations: the
\* switch on the tool name inside try, and the catch.

MaxRequests == 2        \* requests handled one after the other

Tools == {"asset_analyze_dependencies", "db_execute_query", "no_such_tool"}

\* The content object a tool implementation returns.
ToolResult(name) == [status |-> "returned", text |-> <<<<"result of ">>, <<name>>>>]

\* A variant whose errors leave the handler as a rejection.
CaughtAndThrownOn(name, message) ==
    [status |-> "rejected", text |-> message]

\* catch (error): return { content: [{ type: "text", text: `Error executing ...` }] }
Caught(name, message) ==
    [status |-> "returned", text |-> <<<<"Error executing ">>, <<name>>, <<": ">>>> \o message]

\* default: throw new Error(`Unknown tool: ${name}`)
UnknownTool(name) == <<<<"Unknown tool: ">>, <<name>>>>

\* A project of two descriptors, the second declaring the first.
InitHandler ==
    /\ projectAssets = <<AssetInfo(1, 1, << >>), AssetInfo(2, 2, <<AssetName(1)>>)>>
    /\ AnalysisIdle
    /\ project = Extraction
    /\ scanStatus = "returned"
    /\ ServicesAtRest

othersThanHandler == <<analysisVars, extractVars, db, shell, pool>>

\* A request arrives: const { name, arguments: args } = request.params
CallTool ==
    /\ handler.pc = "idle"
    /\ handler.served < MaxRequests
    /\ \E name \in Tools :
         handler' = [handler EXCEPT !.pc = "switch", !.name = name, !.reply = NoReply]
    /\ UNCHANGED othersThanHandler

\* case "asset_analyze_dependencies"
AssetTool ==
    /\ handler.pc = "switch"
    /\ handler.name = "asset_analyze_dependencies"
    /\ analyzeAssetDependencies

\* case "db_execute_query", up to each await of executeQuery
QueryToolCalled ==
    /\ handler.pc = "switch"
    /\ handler.name = "db_execute_query"
    /\ executeQuery

QueryToolConnects ==
    /\ handler.pc = "switch"
    /\ handler.name = "db_execute_query"
    /\ getConnection

QueryToolExecutes ==
    /\ handler.pc = "switch"
    /\ handler.name = "db_execute_query"
    /\ connectionExecute

\* The awaited implementation has settled, or the name matched no case:
\* its content is returned, or its error is caught and returned as text.
HandlerReturns ==
    /\ handler.pc = "switch"
    /\ \/ /\ handler.name = "asset_analyze_dependencies"
          /\ outcome # "idle"
          /\ handler' = [handler EXCEPT
                            !.pc = "replied", !.served = @ + 1,
                            !.reply = IF outcome = "rejected"
                                      THEN Caught(handler.name, errorMessage)
                                      ELSE ToolResult(handler.name)]
       \/ /\ handler.name = "db_execute_query"
          /\ db.pc = "done"
          /\ handler' = [handler EXCEPT
                            !.pc = "replied", !.served = @ + 1,
                            !.reply = IF db.outcome = "rejected"
                                      THEN Caught(handler.name, <<<<db.error>>>>)
                                      ELSE ToolResult(handler.name)]
       \/ /\ handler.name \notin {"asset_analyze_dependencies", "db_execute_query"}
          /\ handler' = [handler EXCEPT
                            !.pc = "replied", !.served = @ + 1,
                            !.reply = Caught(handler.name, UnknownTool(handler.name))]
    /\ UNCHANGED othersThanHandler

\* The reply is out; what the implementation held is dropped.
AssetToolSettled ==
    /\ handler.pc = "replied"
    /\ Respond

QueryToolSettled ==
    /\ handler.pc = "replied"
    /\ QuerySettled

\* The handler is ready for the next request.
HandlerDone ==
    /\ handler.pc = "replied"
    /\ outcome = "idle"
    /\ db.pc = "idle"
    /\ handler' = [handler EXCEPT !.pc = "idle"]
    /\ UNCHANGED othersThanHandler

NextHandler ==
    \/ CallTool
    \/ AssetTool
    \/ QueryToolCalled
    \/ QueryToolConnects
    \/ QueryToolExecutes
    \/ HandlerReturns
    \/ AssetToolSettled
    \/ QueryToolSettled
    \/ HandlerDone

SpecHandler == InitHandler /\ [][NextHandler]_vars

\* ===================================================== properties checked
\* The dependency graph of a descriptor sequence: nodes are the descriptor
\* names, an edge leads from a descriptor to each declared name that is the
\* name of a descriptor.
NamesOf(assets) == {assets[i].name : i \in DOMAIN assets}

UniqueNames(assets) ==
    \A i, j \in DOMAIN assets : assets[i].name = assets[j].name => i = j

Declares(assets, x, y) ==
    \E i \in DOMAIN assets : assets[i].name = x /\ Includes(assets[i].depends, y)

Successors(assets, x) == {y \in NamesOf(assets) : Declares(assets, x, y)}

RECURSIVE Closure(_, _, _)
Closure(assets, S, k) ==
    IF k = 0 THEN S
    ELSE Closure(assets, S \cup UNION {Successors(assets, y) : y \in S}, k - 1)

\* The names reachable from x along one or more edges.
Reachable(assets, x) == Closure(assets, Successors(assets, x), Len(assets))

OnCycle(assets, x) == x \in Reachable(assets, x)

Acyclic(assets) == \A x \in NamesOf(assets) : ~OnCycle(assets, x)

\* The full analysis has run on projectAssets and its result is held.
FullAnalysisDone == outcome = "resolved" /\ ~Truthy(request)

\* A single-descriptor report has been produced.
ReportDone == outcome = "resolved" /\ Truthy(request)

PositionsOf(seq, x) == {i \in DOMAIN seq : seq[i] = x}

\* C1: for an acyclic descriptor set with unique names, every dependency that
\* is a descriptor of the set comes strictly before the descriptor declaring
\* it in the order topologicalSort returns.
C1_DependenciesFirst ==
    (FullAnalysisDone /\ UniqueNames(projectAssets) /\ Acyclic(projectAssets)) =>
        \A d, r \in DOMAIN sortedAssets :
            Includes(sortedAssets[d].depends, sortedAssets[r].name) => r < d

\* C2: for an acyclic descriptor set with unique names, the order returned by
\* topologicalSort has the length of the input and holds every input
\* descriptor exactly once.
C2_EveryDescriptorOnce ==
    (FullAnalysisDone /\ UniqueNames(projectAssets) /\ Acyclic(projectAssets)) =>
        /\ Len(sortedAssets) = Len(projectAssets)
        /\ \A i \in DOMAIN projectAssets :
               Cardinality(PositionsOf(sortedAssets, projectAssets[i])) = 1

C2_Witness ==
    /\ FullAnalysisDone /\ UniqueNames(projectAssets) /\ Acyclic(projectAssets)
    /\ Len(projectAssets) = 3
    /\ \E i, j \in DOMAIN projectAssets :
           /\ i # j
           /\ Includes(projectAssets[i].depends, projectAssets[j].name)
           /\ Len(projectAssets[i].depends) = 2
    /\ Len(sortedAssets) = 3

C4_CyclesAreClosed ==
    FullAnalysisDone =>
        \A c \in DOMAIN circularDeps :
            /\ Len(circularDeps[c]) >= 2
            /\ circularDeps[c][1] = circularDeps[c][Len(circularDeps[c])]
            /\ \A i \in DOMAIN circularDeps[c] : circularDeps[c][i] \in DepNames

\* A self-dependent descriptor, declared by another one, is reported as the
\* cycle <<x, x>>.
C4_Witness ==
    /\ FullAnalysisDone
    /\ Len(projectAssets) = 2
    /\ Declares(projectAssets, projectAssets[1].name, projectAssets[2].name)
    /\ circularDeps = <<<<projectAssets[2].name, projectAssets[2].name>>>>

\* C5: for a descriptor set with unique names, no cycle is reported if and
\* only if the dependency graph among the descriptors has no directed cycle.
C5_EmptyIffAcyclic ==
    (FullAnalysisDone /\ UniqueNames(projectAssets)) =>
        ((circularDeps = << >>) <=> Acyclic(projectAssets))

C5_Witness ==
    /\ FullAnalysisDone /\ UniqueNames(projectAssets)
    /\ Len(projectAssets) = 3
    /\ circularDeps # << >>
    /\ \E x \in NamesOf(projectAssets) : ~OnCycle(projectAssets, x)
    /\ \E x \in NamesOf(projectAssets) :
           OnCycle(projectAssets, x) /\ ~Declares(projectAssets, x, x)

SortedNames == [i \in DOMAIN sortedAssets |-> sortedAssets[i].name]

\* The project holds exactly two descriptors, which declare each other and
\* nothing else.
TwoCycleProject ==
    /\ Len(projectAssets) = 2
    /\ projectAssets[1].name # projectAssets[2].name
    /\ projectAssets[1].depends = <<projectAssets[2].name>>
    /\ projectAssets[2].depends = <<projectAssets[1].name>>

\* C6 (as stated): for X: deps=[Y], Y: deps=[X] the order returned by
\* topologicalSort omits at least one of X and Y.
C6_OmitsOneOfTwoCycle ==
    (FullAnalysisDone /\ TwoCycleProject) =>
        \E i \in DOMAIN projectAssets : ~Includes(SortedNames, projectAssets[i].name)

\* C6 (amended): topologicalSort returns an order also for cyclic sets, and
\* for a set with unique names every descriptor that lies on a dependency
\* cycle is in that order exactly once; for X: deps=[Y], Y: deps=[X] the
\* order holds both X and Y.
C6_CyclicDescriptorsKept ==
    (FullAnalysisDone /\ UniqueNames(projectAssets)) =>
        /\ \A i \in DOMAIN projectAssets :
               OnCycle(projectAssets, projectAssets[i].name) =>
                   Cardinality(PositionsOf(sortedAssets, projectAssets[i])) = 1
        /\ TwoCycleProject => Len(sortedAssets) = 2

C6_Witness ==
    /\ FullAnalysisDone
    /\ TwoCycleProject
    /\ SortedNames = <<projectAssets[1].name, projectAssets[2].name>>
    /\ Len(circularDeps) = 1

NothingProduced ==
    /\ rootAssets = << >>
    /\ complexAssets = << >>
    /\ circularDeps = << >>
    /\ sortedAssets = << >>
    /\ reportAsset = << >>
    /\ reportDepends = << >>
    /\ dependents = << >>

C8_UsedByIsDirect ==
    ReportDone =>
        /\ Len(reportAsset) = 1
        /\ reportAsset[1].name = request.name
        /\ reportDepends = reportAsset[1].depends
        /\ \A i \in DOMAIN projectAssets :
               Cardinality(PositionsOf(dependents, projectAssets[i])) =
                   IF \E j \in DOMAIN projectAssets[i].depends :
                          projectAssets[i].depends[j] = request.name
                   THEN 1 ELSE 0
        /\ \A i, j \in DOMAIN dependents : i < j => dependents[i].path < dependents[j].path
        /\ \A i \in DOMAIN dependents : dependents[i] \in Range(projectAssets)

\* The target declares nothing, one descriptor declares it directly and a
\* third one reaches it only through that one.
C8_Witness ==
    /\ ReportDone
    /\ UniqueNames(projectAssets)
    /\ reportDepends = << >>
    /\ Len(dependents) = 1
    /\ \E i \in DOMAIN projectAssets :
           /\ request.name \in Reachable(projectAssets, projectAssets[i].name)
           /\ ~Includes(projectAssets[i].depends, request.name)

\* C9 (as stated): the 'Used By' result never holds the target itself.
C9_UsedByExcludesTarget ==
    ReportDone => ~Includes(dependents, reportAsset[1])

\* C9 (amended): the 'Used By' result holds the target itself exactly when
\* the target lists its own name in its depends.
C9_UsedByHoldsTargetIffSelfDependent ==
    ReportDone =>
        (Includes(dependents, reportAsset[1]) <=>
            Includes(reportAsset[1].depends, reportAsset[1].name))

C9_Witness ==
    /\ ReportDone
    /\ Includes(reportAsset[1].depends, reportAsset[1].name)
    /\ Includes(dependents, reportAsset[1])
    /\ Len(dependents) = 2

\* The descriptors with every declared name that no descriptor has removed.
Resolved(assets) ==
    LET Known(dep) == dep \in NamesOf(assets)
    IN [i \in DOMAIN assets |-> [assets[i] EXCEPT !.depends = SelectSeq(@, Known)]]

Paths(seq) == [i \in DOMAIN seq |-> seq[i].path]

Unresolved(assets) ==
    {i \in DOMAIN assets :
        \E j \in DOMAIN assets[i].depends : assets[i].depends[j] \notin NamesOf(assets)}

\* C10: a declared name that no descriptor has never appears in the order
\* topologicalSort returns and does not change it: every element of the order
\* is an input descriptor, the order is the one obtained with such names
\* removed from all depends lists, and a descriptor declaring such a name is
\* in the order under its name (as itself when names are unique).
C10_UnresolvedNamesIgnored ==
    FullAnalysisDone =>
        /\ \A i \in DOMAIN sortedAssets : sortedAssets[i] \in Range(projectAssets)
        /\ Paths(sortedAssets) = Paths(topologicalSort(Resolved(projectAssets)))
        /\ \A i \in Unresolved(projectAssets) :
               /\ Includes(SortedNames, projectAssets[i].name)
               /\ UniqueNames(projectAssets) => Includes(sortedAssets, projectAssets[i])

\* A descriptor declares a name no descriptor has and then the name of a
\* descriptor scanned after it.
C10_Witness ==
    /\ FullAnalysisDone
    /\ Len(projectAssets) = 2
    /\ UniqueNames(projectAssets)
    /\ Len(projectAssets[1].depends) = 2
    /\ projectAssets[1].depends[1] \notin NamesOf(projectAssets)
    /\ projectAssets[1].depends[2] = projectAssets[2].name
    /\ Len(sortedAssets) = 2

\* The descriptors that lookup by name can return: the first of each name.
FirstOnly(assets) ==
    LET IsFirst(a) == assets[Find(assets, a.name)] = a
    IN SelectSeq(assets, IsFirst)

\* The positions of descriptors whose name an earlier descriptor already has.
Shadowed(assets) ==
    {j \in DOMAIN assets : \E i \in 1..(j - 1) : assets[i].name = assets[j].name}

\* C11 (as stated): of two descriptors with the same name the later one is
\* the one the analysis uses: the order holds the last descriptor of each
\* name.
C11_LaterDescriptorWins ==
    FullAnalysisDone =>
        \A j \in DOMAIN projectAssets :
            (\A h \in DOMAIN projectAssets :
                 projectAssets[h].name = projectAssets[j].name => h <= j) =>
                Includes(sortedAssets, projectAssets[j])

\* C11 (amended): of two descriptors with the same name the earlier one is
\* the one the analysis uses: the order holds the first descriptor of each
\* name and none scanned after it, and the cycles and the order are those of
\* the sequence without the later descriptors.
C11_FirstDescriptorWins ==
    FullAnalysisDone =>
        /\ \A j \in DOMAIN projectAssets :
               Includes(sortedAssets, projectAssets[j]) <=> j \notin Shadowed(projectAssets)
        /\ circularDeps = findCircularDependencies(FirstOnly(projectAssets))
        /\ sortedAssets = topologicalSort(FirstOnly(projectAssets))

\* The later of two descriptors of one name declares that name, the earlier
\* declares nothing: no cycle is reported and the order is the earlier one.
C11_Witness ==
    /\ FullAnalysisDone
    /\ Len(projectAssets) = 2
    /\ projectAssets[1].name = projectAssets[2].name
    /\ projectAssets[1].depends = << >>
    /\ projectAssets[2].depends = <<projectAssets[2].name>>
    /\ circularDeps = << >>
    /\ sortedAssets = <<projectAssets[1]>>

DependsTotal(assets) ==
    LET RECURSIVE Sum(_)
        Sum(i) == IF i = 0 THEN 0 ELSE Len(assets[i].depends) + Sum(i - 1)
    IN Sum(Len(assets))

\* C12: a run of findCircularDependencies is finite and follows the
\* dependencies of each name at most once: no name is expanded twice, dfs is
\* entered at most once per descriptor and once per declared dependency, and
\* the recursion stack is empty when the run returns.
C12_EachNameExpandedOnce ==
    FullAnalysisDone =>
        LET run == dfsRun(projectAssets) IN
        /\ \A i, j \in DOMAIN run.expanded : run.expanded[i] = run.expanded[j] => i = j
        /\ run.calls <= Len(projectAssets) + DependsTotal(projectAssets)
        /\ run.recursionStack = {}
        /\ Range(run.expanded) = run.visited

\* Two descriptors declare each other: three calls, two expansions.
C12_Witness ==
    /\ FullAnalysisDone
    /\ TwoCycleProject
    /\ dfsRun(projectAssets).calls = 3
    /\ Len(dfsRun(projectAssets).expanded) = 2
    /\ circularDeps # << >>

\* C13: a run of topologicalSort returns an order for every descriptor
\* sequence, cyclic or not: when it returns no name is marked in progress,
\* every descriptor name is marked done, and a name met again while in
\* progress has not kept the names above it from being finished.
C13_NothingLeftInProgress ==
    FullAnalysisDone =>
        LET run == visitRun(projectAssets) IN
        /\ run.temp = {}
        /\ run.visited = NamesOf(projectAssets)
        /\ Range(SortedNames) = NamesOf(projectAssets)
        /\ Len(run.sorted) <= Len(projectAssets)

\* A descriptor declares itself and a descriptor that declares it back.
C13_Witness ==
    /\ FullAnalysisDone
    /\ Len(projectAssets) = 2
    /\ Declares(projectAssets, projectAssets[1].name, projectAssets[1].name)
    /\ OnCycle(projectAssets, projectAssets[1].name)
    /\ Len(sortedAssets) = 2
    /\ visitRun(projectAssets).temp = {}

\* C20: no reported cycle holds a name that no descriptor has.
C20_CyclesHoldDescriptorNamesOnly ==
    FullAnalysisDone =>
        \A c \in DOMAIN circularDeps :
            \A i \in DOMAIN circularDeps[c] : circularDeps[c][i] \in NamesOf(projectAssets)

\* One descriptor declares the same unknown name twice.
C20_Witness ==
    /\ FullAnalysisDone
    /\ \E i \in DOMAIN projectAssets :
           /\ Len(projectAssets[i].depends) = 2
           /\ projectAssets[i].depends[1] = projectAssets[i].depends[2]
           /\ projectAssets[i].depends[1] \notin NamesOf(projectAssets)
           /\ ~StartsWithYii(projectAssets[i].depends[1])
    /\ circularDeps = << >>

\* ---- extraction (SpecExtract, SpecParse)

DescriptorOf(entry) == [dir |-> entry.parent, file |-> entry.name]

Yields(entry) ==
    \E j \in DOMAIN projectAssets : projectAssets[j].path = DescriptorOf(entry)

Recognized(entry) ==
    entry.kind = "file" /\ entry.name.tail \in {"Asset.php", "Bundle.php"}

Healthy(entry) == entry.stat /\ entry.read

\* Every directory from the root down to dirPath can be listed.
RECURSIVE ScannedDir(_, _)
ScannedDir(p, dirPath) ==
    /\ Lists(p, dirPath)
    /\ Len(dirPath) > 1 => ScannedDir(p, Front(dirPath))

OnlyFilesFail(p) ==
    /\ p.roots["modules"] # "unlistable"
    /\ \A i \in DOMAIN p.entries : p.entries[i].kind = "dir" => Healthy(p.entries[i])

\* C15: when the only entries that cannot be read or stat'ed are files, the
\* extraction returns and every readable, stat-able file with a recognized
\* suffix in a scanned directory has its descriptor in the result.
C15_UnreadableFileAffectsOnlyItself ==
    (scanStatus # "none" /\ OnlyFilesFail(project)) =>
        /\ scanStatus = "returned"
        /\ \A i \in DOMAIN project.entries :
              LET entry == project.entries[i]
              IN (Recognized(entry) /\ Healthy(entry) /\ ScannedDir(project, entry.parent))
                    => Yields(entry)

\* C16 as stated: an extraction over a project with a missing root directory
\* ends in a failure.
C16_MissingRootSurfacesFailure ==
    (scanStatus # "none" /\ \E r \in RootNames : project.roots[r] = "missing")
        => scanStatus = "failed"

\* Nothing before the entry in its directory makes statSync throw.
ReachedInLoop(p, i) ==
    \A j \in 1..(i - 1) :
        p.entries[j].parent = p.entries[i].parent => p.entries[j].stat

\* C16: a missing root directory is skipped: the extraction fails exactly when
\* the modules root exists and cannot be listed, and otherwise returns a
\* descriptor for every readable recognized file that the loop over a listed
\* assets or widgets root reaches, whatever roots are missing; every
\* descriptor returned is that of a readable recognized file.
C16_MissingRootIsSkipped ==
    scanStatus # "none" =>
        /\ scanStatus = "failed" <=> project.roots["modules"] = "unlistable"
        /\ scanStatus = "returned" =>
              /\ \A i \in DOMAIN project.entries :
                    LET entry == project.entries[i]
                    IN (/\ entry.parent \in {assetsPath, widgetsPath}
                        /\ Recognized(entry) /\ Healthy(entry)
                        /\ ReachedInLoop(project, i))
                          => Yields(entry)
              /\ \A j \in DOMAIN projectAssets :
                    \E i \in DOMAIN project.entries :
                        /\ Recognized(project.entries[i]) /\ Healthy(project.entries[i])
                        /\ projectAssets[j].path = DescriptorOf(project.entries[i])

C16_Witness ==
    /\ scanStatus = "returned"
    /\ project.roots["assets"] = "missing"
    /\ project.roots["modules"] = "missing"
    /\ Len(projectAssets) > 0

WrittenIn(entry) == {entry.written[k] : k \in DOMAIN entry.written}

\* C17: a dependency written as 'Name' or as Name::class, where Name is the
\* name of an extracted descriptor, is in the declaring descriptor's depends
\* as that name, so that depends.includes(Name) finds it.
C17_ReferenceReducedToName ==
    scanStatus = "returned" =>
        \A i \in DOMAIN project.entries : \A w \in WrittenIn(project.entries[i]) :
            (/\ w.shape \in {"single", "scoped"}
             /\ \E d \in DOMAIN projectAssets : projectAssets[d].name = w.name)
            => \E j \in DOMAIN projectAssets :
                  /\ projectAssets[j].path = DescriptorOf(project.entries[i])
                  /\ Includes(projectAssets[j].depends, w.name)

\* ---- database (SpecDb)

\* The first token that is not white space begins, in lower case, with
\* 'select'.
SelectFirst(text) ==
    \E i \in DOMAIN text :
        /\ text[i] # " "
        /\ \A j \in 1..(i - 1) : text[j] = " "
        /\ toLowerCaseToken(text[i]) \in {"select", "selected"}

\* C18: every statement sent to connection.execute begins with 'select';
\* a call is past the security check only with such a query; and a call whose
\* query does not begin with 'select' is rejected in its first step, with the
\* connection as it was and no statement sent.
C18_OnlySelectReachesExecute ==
    [][ /\ db'.statement # << >> => SelectFirst(db'.statement)
        /\ db'.pc \in {"getConnection", "execute"} => SelectFirst(db'.query.text)
        /\ (db.pc = "idle" /\ db'.pc # "idle" /\ ~SelectFirst(db'.query.text))
              => /\ db'.pc = "done"
                 /\ db'.outcome = "rejected"
                 /\ db'.connection = db.connection
                 /\ db'.statement = << >> ]_vars

\* A DELETE was rejected while no connection had ever been opened.
C18_Witness ==
    /\ db.pc = "done"
    /\ db.outcome = "rejected"
    /\ db.error = OnlySelectAllowed
    /\ db.query.given
    /\ \E i \in DOMAIN db.query.text : db.query.text[i] = "DELETE"
    /\ ~db.connection
    /\ db.statement = << >>

\* ---- commands (SpecShell)

\* The console route a launched command line runs: the word after the script.
Route(line) == line[3]

\* C19: no tool call launches a process that runs migrate/fresh, migrate/down
\* or cache/flush-all.
C19_DangerousNeverLaunched ==
    shell.launched # << >> =>
        \A d \in DOMAIN dangerousCommands : Route(shell.launched) # dangerousCommands[d]

\* ---- interlinked projects (SpecInterlinked)

\* C21: every reported cycle, up to its closing name, is the part of the
\* traversal path from the re-encountered name to the name whose dependency
\* was being followed: its names are distinct and were expanded in that
\* order, it begins with the target and ends with the source of the edge
\* followed, and each name of the whole sequence declares the next one.
C21_CyclesAreDependencyPaths ==
    FullAnalysisDone =>
        LET run == dfsRun(projectAssets)
        IN /\ Len(run.backEdges) >= Len(circularDeps)
           /\ \A c \in DOMAIN circularDeps :
                LET cycle == circularDeps[c]
                    n == Len(cycle)
                IN /\ n >= 2
                   /\ \A i \in 1..(n - 1) : Declares(projectAssets, cycle[i], cycle[i + 1])
                   /\ \A i, j \in 1..(n - 1) :
                         i < j => IndexOf(run.expanded, cycle[i]) < IndexOf(run.expanded, cycle[j])
                   /\ cycle[1] = run.backEdges[c][2]
                   /\ cycle[n - 1] = run.backEdges[c][1]
                   /\ cycle[n] = run.backEdges[c][2]

\* A cycle through three descriptors and a shorter one are both reported.
C21_Witness ==
    /\ FullAnalysisDone
    /\ Len(circularDeps) = 2
    /\ \E c \in DOMAIN circularDeps : Len(circularDeps[c]) = 4
    /\ \E c \in DOMAIN circularDeps : Len(circularDeps[c]) = 3

\* ---- order and classification (Spec)

Related(assets, x, y) == y \in Reachable(assets, x) \/ x \in Reachable(assets, y)

\* C22: for a descriptor set with unique names, two descriptors with no
\* dependency path between them stand in the returned order as they stand in
\* the input.
C22_UnrelatedKeepInputOrder ==
    (FullAnalysisDone /\ UniqueNames(projectAssets)) =>
        \A i, j \in DOMAIN projectAssets :
            (i < j /\ ~Related(projectAssets, projectAssets[i].name, projectAssets[j].name))
                => \A p \in PositionsOf(sortedAssets, projectAssets[i]) :
                       \A q \in PositionsOf(sortedAssets, projectAssets[j]) : p < q

InSystemNamespace(dep) == dep = JqueryAsset

OnlySystemDepends(asset) ==
    \A k \in DOMAIN asset.depends : InSystemNamespace(asset.depends[k])

\* C23: the root assets of the full analysis are, in scan order, exactly the
\* descriptors all of whose declared dependencies are in the system
\* namespace, those without dependencies included.
C23_RootsDependOnSystemOnly ==
    FullAnalysisDone =>
        /\ \A i \in DOMAIN projectAssets :
               Includes(rootAssets, projectAssets[i]) <=> OnlySystemDepends(projectAssets[i])
        /\ Len(rootAssets) =
               Cardinality({i \in DOMAIN projectAssets : OnlySystemDepends(projectAssets[i])})
        /\ \A p, q \in DOMAIN rootAssets : p < q => rootAssets[p].path < rootAssets[q].path

\* A descriptor that declares only yii\web\JqueryAsset is a root, next to one
\* that declares a project descriptor and is not.
C23_Witness ==
    /\ FullAnalysisDone
    /\ \E i \in DOMAIN projectAssets :
           /\ projectAssets[i].depends = <<JqueryAsset>>
           /\ Includes(rootAssets, projectAssets[i])
    /\ \E j \in DOMAIN projectAssets :
           /\ Len(projectAssets[j].depends) = 1
           /\ ~Includes(rootAssets, projectAssets[j])

\* C24: whatever the descriptor sequence, the returned order holds each
\* distinct name of the input exactly once and nothing else.
C24_OneDescriptorPerName ==
    FullAnalysisDone =>
        /\ Len(sortedAssets) = Cardinality(NamesOf(projectAssets))
        /\ \A x \in NamesOf(projectAssets) : Cardinality(PositionsOf(SortedNames, x)) = 1
        /\ \A p \in DOMAIN sortedAssets : Includes(projectAssets, sortedAssets[p])

\* Three files, two of them with the same base name, and a dependency cycle.
C24_Witness ==
    /\ FullAnalysisDone
    /\ Len(projectAssets) = 3
    /\ ~UniqueNames(projectAssets)
    /\ ~Acyclic(projectAssets)
    /\ Len(sortedAssets) = 2

C26_NoFileTwice ==
    scanStatus = "returned" =>
        \A i, j \in DOMAIN projectAssets :
            projectAssets[i].path = projectAssets[j].path => i = j

\* ---- reported cycles (SpecInterlinked)

DuplicateFreeDepends(assets) ==
    \A a \in DOMAIN assets : \A i, j \in DOMAIN assets[a].depends :
        assets[a].depends[i] = assets[a].depends[j] => i = j

\* The names of a reported cycle without the closing one.
Core(cycle) == SubSeq(cycle, 1, Len(cycle) - 1)

\* c is d started at another of its names.
Rotation(c, d) ==
    /\ Len(c) = Len(d)
    /\ \E k \in 0..(Len(c) - 1) :
          \A i \in DOMAIN c : d[i] = c[((i - 1 + k) % Len(c)) + 1]

\* C27: for descriptors with unique names and duplicate-free depends lists,
\* no two reported cycles are equal or rotations of each other, and the
\* reported cycles are as many as the edges followed into a name on the
\* recursion stack, each of which is a declared dependency followed once.
C27_NoCycleReportedTwice ==
    (FullAnalysisDone /\ UniqueNames(projectAssets) /\ DuplicateFreeDepends(projectAssets)) =>
        LET backEdges == dfsRun(projectAssets).backEdges
        IN /\ \A c, d \in DOMAIN circularDeps :
                 c # d => /\ circularDeps[c] # circularDeps[d]
                          /\ ~Rotation(Core(circularDeps[c]), Core(circularDeps[d]))
           /\ Len(circularDeps) = Len(backEdges)
           /\ Cardinality(Range(backEdges)) = Len(backEdges)
           /\ \A b \in DOMAIN backEdges :
                 Declares(projectAssets, backEdges[b][1], backEdges[b][2])

\* Two cycles that share a descriptor are reported.
C27_Witness ==
    /\ FullAnalysisDone /\ UniqueNames(projectAssets) /\ DuplicateFreeDepends(projectAssets)
    /\ Len(circularDeps) = 2
    /\ \E x \in NamesOf(projectAssets) :
           Includes(circularDeps[1], x) /\ Includes(circularDeps[2], x)
    /\ Len(circularDeps[1]) # Len(circularDeps[2])

\* C28: for descriptors with unique names, every descriptor on a directed
\* dependency cycle is named in some reported cycle.
C28_EveryCyclicDescriptorReported ==
    (FullAnalysisDone /\ UniqueNames(projectAssets)) =>
        \A x \in NamesOf(projectAssets) :
            OnCycle(projectAssets, x) =>
                \E c \in DOMAIN circularDeps : Includes(circularDeps[c], x)

\* ---- shared connection (SpecPool)

\* C29: at any time at most one connection is open, and an open connection
\* is the cached one or the one being ended.
C29_OneConnectionAtATime ==
    /\ Cardinality(pool.open) <= 1
    /\ \A n \in pool.open : n = pool.connection \/ n = pool.ending

\* ---- handler (SpecHandler)

\* The tool implementation of the request in progress has settled and its
\* outcome is still held.
ToolSettled ==
    IF handler.name = "asset_analyze_dependencies" THEN outcome # "idle"
    ELSE IF handler.name = "db_execute_query" THEN db.pc = "done"
    ELSE TRUE

\* The error the tool implementation of the request in progress has raised.
Raised ==
    IF handler.name = "asset_analyze_dependencies" THEN outcome = "rejected"
    ELSE IF handler.name = "db_execute_query" THEN db.outcome = "rejected"
    ELSE TRUE

RaisedMessage ==
    IF handler.name = "asset_analyze_dependencies" THEN errorMessage
    ELSE IF handler.name = "db_execute_query" THEN <<<<db.error>>>>
    ELSE <<<<"Unknown tool: ">>, <<handler.name>>>>

\* C30: the handler never settles as a rejection; when the tool
\* implementation raised an error, or the name is no tool, the reply is the
\* text 'Error executing <tool>: <message>'; and a handler at rest accepts
\* the next request.
C30_ErrorsBecomeTextReplies ==
    /\ handler.reply.status # "rejected"
    /\ handler.pc = "replied" => handler.reply.status = "returned"
    /\ (handler.pc = "replied" /\ ToolSettled) =>
          handler.reply.text =
              IF Raised
              THEN <<<<"Error executing ">>, <<handler.name>>, <<": ">>>> \o RaisedMessage
              ELSE ToolResult(handler.name).text
    /\ (handler.pc = "switch" /\ ToolSettled) => ENABLED HandlerReturns
    /\ (handler.pc = "idle" /\ handler.served < MaxRequests) => ENABLED CallTool
    /\ handler.pc = "replied" => ENABLED (AssetToolSettled \/ QueryToolSettled \/ HandlerDone)

\* The NotFound of asset_analyze_dependencies is replied as text to a
\* request that came after another one was served.
C30_Witness ==
    /\ handler.pc = "replied"
    /\ handler.served = 2
    /\ handler.name = "asset_analyze_dependencies"
    /\ outcome = "rejected"
    /\ handler.reply =
          [status |-> "returned",
           text |-> <<<<"Error executing ">>, <<"asset_analyze_dependencies">>, <<": ">>,
                      <<"Failed to analyze asset dependencies: ">>, <<"Asset '">>,
                      request.name, <<"' not found">>>>]


====
